---------------------------- MODULE Spec2Model ----------------------------
(***************************************************************************)
(* The notification (re)scheduling subsystem of My-Birthday-Tracker:       *)
(* src/app/notifications.ts (planner, gateway, signature) and the          *)
(* reconciliation trigger of src/app/index.tsx (init effect, notifSig,     *)
(* debounced reschedule effect).                                           *)
(*                                                                         *)
(* Conventions.                                                            *)
(*  - A JavaScript string is a sequence of one-character strings, so that  *)
(*    template strings, split, Number and sort are computed, not assumed.  *)
(*  - An instant (a Date's getTime) is a number of clock ticks since local *)
(*    2024-01-01T00:00 (a Monday); one tick is MsPerTick milliseconds.     *)
(*    Local time has no daylight-saving shift in the model.                *)
(*  - A calendar day is its number of days since 2024-01-01.               *)
(*  - Every awaited call of the notification service is two events: the    *)
(*    call is issued by the step that reaches the await, and it returns in *)
(*    a later step; the clock may advance and other callbacks may run in   *)
(*    between.  The service applies a call's effect when it returns.       *)
(***************************************************************************)
EXTENDS Integers, Sequences, FiniteSets, TLC

VARIABLES
  clock,      \* Date.now(), in ticks
  platform,   \* Platform.OS
  perm,       \* the service's permission status
  queue,      \* the service's scheduled notifications
  storage,    \* what the key-value store holds under K_PEOPLE / K_SETTINGS
  people,     \* useState<Person[]>
  settings,   \* useState<Settings>
  initFx,     \* the init effect's async function: where it is suspended
  effect,     \* the reschedule effect's last run: its notifSig and its timer t
  timers,     \* pending debounce timers of the reschedule effect
  recons,     \* every call of rescheduleAllNotifications so far, in start order
  hist        \* bookkeeping of the run (counters and the last commit); no code reads it

vars == << clock, platform, perm, queue, storage, people, settings, initFx,
           effect, timers, recons, hist >>

-----------------------------------------------------------------------------
(* Program constants                                                       *)

DebounceMs == 1500
SafetyMarginMs == 1000
HorizonDaysIos == 30
HorizonDaysAndroid == 60
HorizonWeeksIos == 8
HorizonWeeksAndroid == 12

(* Bounds of the model                                                     *)

MaxTicks == 6
MaxChanges == 2
MaxRecons == 2
MaxFailures == 1

\* Resolution of the model clock: the coarsest unit in which both delays are whole.
MsPerTick == DebounceMs - SafetyMarginMs
TicksPerMinute == (60 * 1000) \div MsPerTick
TicksPerDay == 24 * 60 * TicksPerMinute
WeekTicks == (7 * 24 * 60 * 60 * 1000) \div MsPerTick
DebounceTicks == DebounceMs \div MsPerTick
SafetyMarginTicks == SafetyMarginMs \div MsPerTick

\* JavaScript's undefined and NaN where a number is expected, and an Invalid Date.
Undefined == 0 - 1
NaN == 0 - 2
InvalidDate == 0 - 1000000000

-----------------------------------------------------------------------------
(* Strings                                                                 *)

\* The characters of the model in UTF-16 code unit order.
CodeOrder ==
  << "-", "0", "1", "2", "3", "4", "5", "6", "7", "8", "9", ";",
     "A", "B", "C", "D", "E", "a", "b", "c", "d", "e", "f", "h", "i", "l", "n",
     "o", "r", "s", "t", "u", "v", "y", "|" >>

CharCode(c) == CHOOSE k \in 1..Len(CodeOrder) : CodeOrder[k] = c

Digits == << "0", "1", "2", "3", "4", "5", "6", "7", "8", "9" >>

IsDigit(c) == \E k \in 1..10 : Digits[k] = c

DigitValue(c) == (CHOOSE k \in 1..10 : Digits[k] = c) - 1

\* String(n) of a non-negative integer or NaN.
RECURSIVE NumStr(_)
NumStr(n) ==
  IF n = NaN THEN << "N", "a", "N" >>
  ELSE IF n < 10 THEN << Digits[n + 1] >>
  ELSE NumStr(n \div 10) \o << Digits[(n % 10) + 1] >>

BoolStr(b) == IF b THEN << "t", "r", "u", "e" >> ELSE << "f", "a", "l", "s", "e" >>

\* a < b as JavaScript compares strings (by code unit, a proper prefix first).
RECURSIVE StrLess(_, _)
StrLess(a, b) ==
  IF b = << >> THEN FALSE
  ELSE IF a = << >> THEN TRUE
  ELSE IF Head(a) = Head(b) THEN StrLess(Tail(a), Tail(b))
  ELSE CharCode(Head(a)) < CharCode(Head(b))

\* Array.prototype.sort() without a comparator on an array of strings.
RECURSIVE InsertSorted(_, _)
InsertSorted(s, sorted) ==
  IF sorted = << >> THEN << s >>
  ELSE IF StrLess(s, Head(sorted)) THEN << s >> \o sorted
  ELSE << Head(sorted) >> \o InsertSorted(s, Tail(sorted))

\* An array that is left in the order it has.
SortStrings_Unsorted(ss) == ss

RECURSIVE SortStrings(_)
SortStrings(ss) ==
  IF ss = << >> THEN << >>
  ELSE InsertSorted(Head(ss), SortStrings(Tail(ss)))

\* Array.prototype.join(sep).
RECURSIVE Join(_, _)
Join(ss, sep) ==
  IF ss = << >> THEN << >>
  ELSE IF Len(ss) = 1 THEN ss[1]
  ELSE ss[1] \o sep \o Join(Tail(ss), sep)

\* String.prototype.split(sep) for a one-character separator.
RECURSIVE Split(_, _)
Split(s, sep) ==
  IF \A k \in 1..Len(s) : s[k] # sep THEN << s >>
  ELSE LET k == CHOOSE j \in 1..Len(s) : s[j] = sep /\ \A h \in 1..(j - 1) : s[h] # sep
       IN << SubSeq(s, 1, k - 1) >> \o Split(SubSeq(s, k + 1, Len(s)), sep)

\* Number(s) for the strings split('-') can return: digits give their value,
\* the empty string gives 0, anything else NaN.
RECURSIVE DigitsValue(_, _)
DigitsValue(s, acc) ==
  IF s = << >> THEN acc ELSE DigitsValue(Tail(s), 10 * acc + DigitValue(Head(s)))

Number(s) ==
  IF \A k \in 1..Len(s) : IsDigit(s[k]) THEN DigitsValue(s, 0) ELSE NaN

-----------------------------------------------------------------------------
(* Dates                                                                   *)

IsLeap(y) == (y % 4 = 0 /\ y % 100 # 0) \/ y % 400 = 0

DaysInYear(y) == IF IsLeap(y) THEN 366 ELSE 365

DaysInMonth(y, m) ==
  IF m \in {4, 6, 9, 11} THEN 30
  ELSE IF m = 2 THEN (IF IsLeap(y) THEN 29 ELSE 28)
  ELSE 31

RECURSIVE DaysBeforeYear(_)
DaysBeforeYear(y) ==
  IF y = 2024 THEN 0
  ELSE IF y > 2024 THEN DaysBeforeYear(y - 1) + DaysInYear(y - 1)
  ELSE DaysBeforeYear(y + 1) - DaysInYear(y)

RECURSIVE DaysBeforeMonth(_, _)
DaysBeforeMonth(y, m) ==
  IF m = 1 THEN 0 ELSE DaysBeforeMonth(y, m - 1) + DaysInMonth(y, m - 1)

\* The calendar of the years the model's instants lie in, worked out once.
TableYears == 2024..2026
MonthStartTable ==
  [y \in TableYears |-> [m \in 1..12 |-> DaysBeforeYear(y) + DaysBeforeMonth(y, m)]]

MonthStart(y, m) ==
  IF y \in TableYears THEN MonthStartTable[y][m]
  ELSE DaysBeforeYear(y) + DaysBeforeMonth(y, m)

\* The day of new Date(y, monthIndex, d): month indexes outside 0..11 carry into the
\* year and days outside the month carry into the neighbouring months.
RECURSIVE MakeDay(_, _, _)
MakeDay(y, monthIndex, d) ==
  IF monthIndex > 11 THEN MakeDay(y + 1, monthIndex - 12, d)
  ELSE IF monthIndex < 0 THEN MakeDay(y - 1, monthIndex + 12, d)
  ELSE MonthStart(y, monthIndex + 1) + d - 1

RECURSIVE YearFrom(_, _)
YearFrom(day, y) ==
  IF day < DaysBeforeYear(y) THEN YearFrom(day, y - 1)
  ELSE IF day >= DaysBeforeYear(y + 1) THEN YearFrom(day, y + 1)
  ELSE y

RECURSIVE MonthFrom(_, _, _)
MonthFrom(day, y, m) ==
  IF day < DaysBeforeYear(y) + DaysBeforeMonth(y, m) + DaysInMonth(y, m) THEN m
  ELSE MonthFrom(day, y, m + 1)

\* The day of the month of a day of the month m of the year y.
YmdOf(day, y, m) ==
  [y |-> y, m |-> m, d |-> day - DaysBeforeYear(y) - DaysBeforeMonth(y, m) + 1]

\* The month of a day of the year y.
YmdIn(day, y) == YmdOf(day, y, MonthFrom(day, y, 1))

\* Year, month (1..12) and day of the month of a day.
YmdOfDay(day) == YmdIn(day, YearFrom(day, 2024))

TableDays == DaysBeforeYear(2027)
YmdTable == [day \in 0..(TableDays - 1) |-> YmdOfDay(day)]

Ymd(day) == IF day >= 0 /\ day < TableDays THEN YmdTable[day] ELSE YmdOfDay(day)

DayOf(t) == t \div TicksPerDay
TimeOfDay(t) == t % TicksPerDay

\* Date.prototype.getFullYear, getMonth (0..11), getDate and getDay (0 = Sunday).
GetFullYear(t) == Ymd(DayOf(t)).y
GetMonth(t) == Ymd(DayOf(t)).m - 1
GetDate(t) == Ymd(DayOf(t)).d
GetDay(t) == (DayOf(t) + 1) % 7

\* new Date(y, monthIndex, d, h, mi, 0, 0); a NaN argument gives an Invalid Date.
MakeDate(y, monthIndex, d, h, mi) ==
  IF NaN \in {y, monthIndex, d} THEN InvalidDate
  ELSE MakeDay(y, monthIndex, d) * TicksPerDay + (h * 60 + mi) * TicksPerMinute

\* a >= b and a < b on Dates: every comparison with an Invalid Date is false.
DateGe(a, b) == a # InvalidDate /\ b # InvalidDate /\ a >= b
DateLt(a, b) == a # InvalidDate /\ b # InvalidDate /\ a < b

\* date.setDate(n) on a valid Date.
SetDate(t, n) == MakeDay(GetFullYear(t), GetMonth(t), n) * TicksPerDay + TimeOfDay(t)

\* const [y, m, d] = iso.split('-').map(Number): a missing part is undefined.
PartOf(parts, k) == IF k <= Len(parts) THEN Number(parts[k]) ELSE Undefined

YmdOfParts(parts) == [y |-> PartOf(parts, 1), m |-> PartOf(parts, 2), d |-> PartOf(parts, 3)]

SplitYmd(iso) == YmdOfParts(Split(iso, "-"))

\* The dates of the model's people; parseYmd works each of them out once.
Iso19900615 == << "1", "9", "9", "0", "-", "0", "6", "-", "1", "5" >>
Iso19850620 == << "1", "9", "8", "5", "-", "0", "6", "-", "2", "0" >>
Iso20000615 == << "2", "0", "0", "0", "-", "0", "6", "-", "1", "5" >>
Iso19800102 == << "1", "9", "8", "0", "-", "0", "1", "-", "0", "2" >>
KnownIsos == { Iso19900615, Iso19850620, Iso20000615, Iso19800102 }
ParsedIsos == [iso \in KnownIsos |-> SplitYmd(iso)]

parseYmd(iso) == IF iso \in KnownIsos THEN ParsedIsos[iso] ELSE SplitYmd(iso)

\* x ?? 1 on a number that may be undefined, and x - 1 on a number that may be NaN.
OrOne(x) == IF x = Undefined THEN 1 ELSE x
MinusOne(x) == IF x = NaN THEN NaN ELSE x - 1

setTimeToDate(date, h, mi) == DayOf(date) * TicksPerDay + (h * 60 + mi) * TicksPerMinute

\* new Date(year, (m ?? 1) - 1, d ?? 1, 12, 0, 0, 0)
NoonOf(year, p) == MakeDate(year, MinusOne(OrOne(p.m)), OrOne(p.d), 12, 0)

\* thisYear >= new Date(ref.getFullYear(), ref.getMonth(), ref.getDate()) ? thisYear
\* : the same day of the next year
\* A comparison with ref itself instead of the start of ref's day.
ThisOrNextYear_FromRefInstant(thisYear, ref, p) ==
  IF DateGe(thisYear, ref) THEN thisYear ELSE NoonOf(GetFullYear(ref) + 1, p)

ThisOrNextYear(thisYear, ref, p) ==
  IF DateGe(thisYear, MakeDate(GetFullYear(ref), GetMonth(ref), GetDate(ref), 0, 0))
  THEN thisYear
  ELSE NoonOf(GetFullYear(ref) + 1, p)

OccurrenceIn(p, ref) == ThisOrNextYear(NoonOf(GetFullYear(ref), p), ref, p)

OccurrenceFrom(iso, ref) == OccurrenceIn(parseYmd(iso), ref)

\* nextOccurrence reads ref's calendar day only: it is worked out once per date of
\* the model's people and per day of the calendar table.
OccurrenceTable ==
  [iso \in KnownIsos |-> [day \in 0..(TableDays - 1) |-> OccurrenceFrom(iso, day * TicksPerDay)]]

nextOccurrence(iso, ref) ==
  IF iso \in KnownIsos /\ ref >= 0 /\ DayOf(ref) < TableDays
  THEN OccurrenceTable[iso][DayOf(ref)]
  ELSE OccurrenceFrom(iso, ref)

\* An age that does not count the day of the recurrence itself.
ageOn_DayExcluded(iso, at) == GetFullYear(at) - parseYmd(iso).y - 1

ageOn(iso, at) ==
  LET p == parseYmd(iso)
      age == GetFullYear(at) - p.y
      had == \/ (p.m >= 0 /\ GetMonth(at) + 1 > p.m)
             \/ (GetMonth(at) + 1 = p.m /\ p.d >= 0 /\ GetDate(at) >= p.d)
  IN IF p.y < 0 THEN NaN
     ELSE IF (IF had THEN age ELSE age - 1) > 0
          THEN (IF had THEN age ELSE age - 1) ELSE 0

-----------------------------------------------------------------------------
(* Message composer.  An emoji is one element of a string; null is the     *)
(* string Null, which no template produces.                                *)

Null == << "null" >>

Emoji(type) ==
  IF type = "birthday" THEN "cake" ELSE IF type = "anniversary" THEN "ring" ELSE "party"

\* `${p.name} ${emoji} ${yrsText}`
NameWithAge(p, atDate, L) ==
  p.name \o << " ", Emoji(p.type), " " >> \o NumStr(ageOn(p.dateISO, atDate))
    \o (IF L = "nl" THEN << " ", "j", "a", "a", "r" >> ELSE << " ", "y", "e", "a",
         "r", "s" >>)

\* The sentence for one name, and for several: names.pop() takes the last one off.
OneName(name, L) ==
  IF L = "nl" THEN << "cake", " ", "F", "e", "e", "s", "t", " ", "v", "a", "n", "d",
       "a", "a", "g", "!", " ", "cake", " " >> \o name
  ELSE << "cake", " ", "T", "i", "m", "e", " ", "t", "o", " ", "c", "e", "l", "e",
       "b", "r", "a", "t", "e", "!", " ", "cake", ":", " " >> \o name

\* A sentence that separates all the names by commas.
SeveralNames_AllCommas(names, L) ==
  << "T", "o", ":", " " >> \o Join(names, << ",", " " >>)

SeveralNames(names, L) ==
  IF L = "nl"
  THEN << "F", "e", "l", "i", "c", "i", "t", "e", "e", "r", " ", "v", "a", "n", "d",
       "a", "a", "g", ":", " " >>
         \o Join(SubSeq(names, 1, Len(names) - 1), << ",", " " >>)
         \o << " ", "e", "n", " " >> \o names[Len(names)]
  ELSE << "S", "e", "n", "d", " ", "y", "o", "u", "r", " ", "b", "e", "s", "t", " ",
       "w", "i", "s", "h", "e", "s", " ", "t", "o", ":", " " >>
         \o Join(SubSeq(names, 1, Len(names) - 1), << ",", " " >>)
         \o << " ", "a", "n", "d", " " >> \o names[Len(names)]

buildDailyBody(atDate, persons, L) ==
  IF Len(persons) = 0 THEN Null
  ELSE IF Len(persons) = 1 THEN OneName(NameWithAge(persons[1], atDate, L), L)
  ELSE SeveralNames([k \in 1..Len(persons) |-> NameWithAge(persons[k], atDate, L)], L)

-----------------------------------------------------------------------------
(* Schedule planner: the synchronous stretches of scheduleWeekly and       *)
(* scheduleDaily between two awaits                                        *)

horizonDays(os) == IF os = "ios" THEN HorizonDaysIos ELSE HorizonDaysAndroid
horizonWeeks(os) == IF os = "ios" THEN HorizonWeeksIos ELSE HorizonWeeksAndroid

\* A filter that takes an unset sameDayReminder for false.
SameDayOn_OnlyTrue(p) == p.sameDayReminder = "true"

\* p.sameDayReminder ?? true
SameDayOn(p) == p.sameDayReminder # "false"

Ids(ps) == [k \in 1..Len(ps) |-> ps[k].id]

\* Iteration i of scheduleDaily's loop: `day` is built from a fresh clock reading clk
\* and set to the day of the month now.getDate() + i.
DailyDay(now, clk, i) == SetDate(clk, GetDate(now) + i)

DailyAt(st, now, clk, i) == setTimeToDate(DailyDay(now, clk, i), st.sameDayHour, st.sameDayMinute)

\* The date test of scheduleDaily's filter: iso recurs on the day of `day`.
RecursOn(iso, day) ==
  \E occ \in { nextOccurrence(iso, day) } :
    /\ occ # InvalidDate
    /\ GetMonth(occ) = GetMonth(day)
    /\ GetDate(occ) = GetDate(day)

\* For every day of the calendar table, which of the model's dates recur on it.
RecurringTable ==
  [d \in 0..(TableDays - 1) |-> { iso \in KnownIsos : RecursOn(iso, d * TicksPerDay) }]

\* The filter of scheduleDaily on the person p for the day `day`.
IsTodays(p, day) ==
  /\ IF p.dateISO \in KnownIsos /\ day >= 0 /\ DayOf(day) < TableDays
     THEN p.dateISO \in RecurringTable[DayOf(day)]
     ELSE RecursOn(p.dateISO, day)
  /\ SameDayOn(p)

Todays(ps, day) == SelectSeq(ps, LAMBDA p : IsTodays(p, day))

\* A pass that keeps the day whose reminder instant is now.
DailyEmits_AtOrAfterNow(st, ps, now, clk, i) ==
  \E day \in { DailyDay(now, clk, i) } :
    /\ setTimeToDate(day, st.sameDayHour, st.sameDayMinute) >= now
    /\ \E k \in 1..Len(ps) : IsTodays(ps[k], day)

\* Whether iteration i reaches its scheduleSafe call.
DailyEmits(st, ps, now, clk, i) ==
  \E day \in { DailyDay(now, clk, i) } :
    /\ setTimeToDate(day, st.sameDayHour, st.sameDayMinute) > now
    /\ \E k \in 1..Len(ps) : IsTodays(ps[k], day)

DailyEntry(st, ps, now, clk, i) ==
  [ type |-> "daily-reminder",
    trigger |-> DailyAt(st, now, clk, i),
    personIds |-> Ids(Todays(ps, DailyDay(now, clk, i))) ]

\* The first iteration from i on that reaches scheduleSafe; hd when the loop ends.
DailyNext(st, ps, now, clk, i, hd) ==
  LET loop[j \in i..hd] ==
        IF j >= hd THEN hd
        ELSE IF DailyEmits(st, ps, now, clk, j) THEN j
        ELSE loop[j + 1]
  IN IF i >= hd THEN hd ELSE loop[i]

\* A loop that also stops at an anchor equal to now.
AnchorLoops_UntilNotBefore(anchor, jsDow, now) == GetDay(anchor) # jsDow \/ anchor < now

\* The while condition of nextAnchorForWeekday.
AnchorLoops(anchor, jsDow, now) == GetDay(anchor) # jsDow \/ anchor <= now

RECURSIVE AnchorFrom(_, _, _)
AnchorFrom(anchor, jsDow, now) ==
  IF AnchorLoops(anchor, jsDow, now)
  THEN AnchorFrom(anchor + TicksPerDay, jsDow, now)
  ELSE anchor

nextAnchorForWeekday(weekdaySetting, hour, minute, now) ==
  AnchorFrom(MakeDate(GetFullYear(now), GetMonth(now), GetDate(now), hour, minute),
             weekdaySetting % 7, now)

WeeklyWhen(first, i) == first + i * WeekTicks

\* A window that takes its end instant in.
InWeek_ClosedEnd(p, when) ==
  \E day \in { NoonOf(GetFullYear(when), parseYmd(p.dateISO)) } :
    DateGe(day, when) /\ day # InvalidDate /\ day <= when + WeekTicks

InWeek(p, when) ==
  \E day \in { NoonOf(GetFullYear(when), parseYmd(p.dateISO)) } :
    DateGe(day, when) /\ DateLt(day, when + WeekTicks)

WeekEvents(ps, when) == SelectSeq(ps, LAMBDA p : InWeek(p, when))

WeeklyEmits(ps, now, first, i) ==
  /\ WeeklyWhen(first, i) > now
  /\ \E k \in 1..Len(ps) : InWeek(ps[k], WeeklyWhen(first, i))

WeeklyEntry(ps, first, i) ==
  [ type |-> "weekly-summary",
    trigger |-> WeeklyWhen(first, i),
    personIds |-> Ids(WeekEvents(ps, WeeklyWhen(first, i))) ]

WeeklyNext(ps, now, first, i, hw) ==
  LET loop[j \in i..hw] ==
        IF j >= hw THEN hw
        ELSE IF WeeklyEmits(ps, now, first, j) THEN j
        ELSE loop[j + 1]
  IN IF i >= hw THEN hw ELSE loop[i]

\* The request iteration i of scheduleDaily passes to scheduleSafe: the entry above
\* with the content's title and body.
DailyRequest(st, ps, now, clk, i) ==
  DailyEntry(st, ps, now, clk, i) @@
    [ title |-> IF st.locale = "nl" THEN "Vandaag" ELSE "Today",
      body |-> buildDailyBody(DailyDay(now, clk, i), Todays(ps, DailyDay(now, clk, i)),
                              st.locale) ]

\* The requests of one scheduleDaily call during which the clock reads `now`
\* throughout, in the order of the calls of scheduleSafe.
DailyPlan(st, ps, os, now) ==
  LET emitting == SelectSeq([k \in 1..horizonDays(os) |-> k - 1],
                            LAMBDA i : DailyEmits(st, ps, now, now, i))
  IN [n \in 1..Len(emitting) |-> DailyRequest(st, ps, now, now, emitting[n])]

\* The same for scheduleWeekly; personIds stands for the people weekEvents holds,
\* whom buildWeeklyBody lists in the body.
WeeklyRequest(st, ps, first, i) ==
  WeeklyEntry(ps, first, i) @@
    [ title |-> IF st.locale = "nl" THEN "Overzicht komende week" ELSE "This week" ]

WeeklyPlan(st, ps, os, now) ==
  LET first == nextAnchorForWeekday(st.weeklySummaryWeekday, st.weeklySummaryHour,
                                    st.weeklySummaryMinute, now)
      emitting == SelectSeq([k \in 1..horizonWeeks(os) |-> k - 1],
                            LAMBDA i : WeeklyEmits(ps, now, first, i))
  IN IF ~st.weeklySummaryEnabled THEN << >>
     ELSE [n \in 1..Len(emitting) |-> WeeklyRequest(st, ps, first, emitting[n])]

-----------------------------------------------------------------------------
(* Signature                                                               *)

LocaleStr(l) == IF l = "nl" THEN << "n", "l" >> ELSE << "e", "n" >>

TypeStr(t) ==
  IF t = "birthday" THEN << "b", "i", "r", "t", "h", "d", "a", "y" >>
  ELSE IF t = "anniversary"
       THEN << "a", "n", "n", "i", "v", "e", "r", "s", "a", "r", "y" >>
       ELSE << "o", "t", "h", "e", "r" >>

\* A signature entry that leaves the person's sameDayReminder out.
PersonSig_NoFlag(p) ==
  p.id \o << "|" >> \o p.name \o << "|" >> \o TypeStr(p.type) \o << "|" >> \o p.dateISO

PersonSig(p) ==
  p.id \o << "|" >> \o p.name \o << "|" >> \o TypeStr(p.type) \o << "|" >> \o p.dateISO
    \o << "|" >> \o (IF p.sameDayReminder = "true" THEN << "1" >> ELSE << "0" >>)

buildNotificationSignature(st, ps) ==
  LET base == BoolStr(st.weeklySummaryEnabled) \o << "|" >>
                \o NumStr(st.weeklySummaryWeekday) \o << "|" >>
                \o NumStr(st.weeklySummaryHour) \o << "|" >>
                \o NumStr(st.weeklySummaryMinute) \o << "|" >>
                \o NumStr(st.sameDayHour) \o << "|" >>
                \o NumStr(st.sameDayMinute) \o << "|" >>
                \o LocaleStr(st.locale)
      ppl == Join(SortStrings([k \in 1..Len(ps) |-> PersonSig(ps[k])]), << ";" >>)
  IN base \o << "|", "|" >> \o ppl

-----------------------------------------------------------------------------
(* Data the model runs on                                                  *)

Ann ==
  [ id |-> << "a" >>, name |-> << "A", "n", "n" >>, type |-> "birthday",
    dateISO |-> Iso19900615, label |-> "undefined", sameDayReminder |-> "true" ]
AnnNoReminder == [Ann EXCEPT !.sameDayReminder = "false"]
AnnStored == [Ann EXCEPT !.sameDayReminder = "undefined"]
Bob ==
  [ id |-> << "b" >>, name |-> << "B", "o", "b" >>, type |-> "anniversary",
    dateISO |-> Iso19850620, label |-> "undefined", sameDayReminder |-> "true" ]

Cat ==
  [ id |-> << "c" >>, name |-> << "C", "a", "t" >>, type |-> "other",
    dateISO |-> Iso20000615, label |-> "undefined", sameDayReminder |-> "undefined" ]
Dan ==
  [ id |-> << "d" >>, name |-> << "D", "a", "n" >>, type |-> "birthday",
    dateISO |-> Iso19800102, label |-> "undefined", sameDayReminder |-> "true" ]
Eve ==
  [ id |-> << "e" >>, name |-> << "E", "v", "e" >>, type |-> "anniversary",
    dateISO |-> Iso19900615, label |-> "undefined", sameDayReminder |-> "true" ]

\* What the edit form can hold when it is saved after its switch was pressed
\* (sameDayReminder: !e.sameDayReminder), and who can be deleted.
EditedPersons == { AnnNoReminder, Ann }
DeletedIds == { Bob.id }

\* What the controls of the settings sheet and of the list header can pass to
\* setSettings(s => ({ ...s, ...patch })): the weekly switch, a theme pill.
SettingsPatches(s) ==
  { [weeklySummaryEnabled |-> ~s.weeklySummaryEnabled], [themeMode |-> "dark"] }

\* useState's initial settings.
DefaultSettings ==
  [ weeklySummaryEnabled |-> TRUE, weeklySummaryWeekday |-> 1,
    weeklySummaryHour |-> 9, weeklySummaryMinute |-> 0,
    sameDayHour |-> 9, sameDayMinute |-> 0, locale |-> "en",
    search |-> "", filterType |-> "all", sortMode |-> "next", themeMode |-> "system" ]

\* What the store can hold when the app starts: nothing, or what an earlier run saved.
StoredPeople == { [present |-> TRUE, value |-> << AnnStored, Bob >>] }
StoredSettings == { [present |-> TRUE,
                     value |-> [weeklySummaryWeekday |-> 6, themeMode |-> "light"]] }

\* The app is opened shortly before the same-day reminder time of Ann's day.
StartClock == MakeDate(2024, 5, 15, 9, 0) - MaxTicks

\* A notification an earlier run of the app left in the service's queue.
NoEntry == [ type |-> "none", trigger |-> 0, personIds |-> << >> ]
OldEntry ==
  [ type |-> "daily-reminder", trigger |-> MakeDate(2024, 5, 20, 9, 0),
    personIds |-> << Bob.id >>, by |-> 0, n |-> 1, submittedAt |-> 0 ]

-----------------------------------------------------------------------------
(* Reconciliation trigger: notifSig and the reschedule effect              *)

\* An effect without cleanup: the timer of the previous run stays pending.
ClearTimeout_Keeps(ts, id) == ts

\* The effect's cleanup, clearTimeout(t): the timer of the previous run, if pending.
ClearTimeout(ts, id) == { t \in ts : t.id # id }

\* An effect that depends on [settings, people]: it runs on every render.
Render_OnEveryChange(st, ps) ==
  /\ settings' = st
  /\ people' = ps
  /\ effect' = [sig |-> buildNotificationSignature(st, ps), timer |-> effect.timer + 1]
  /\ timers' = ClearTimeout(timers, effect.timer) \cup
       { [ id |-> effect.timer + 1, due |-> clock + DebounceTicks,
           settings |-> st, people |-> ps ] }

\* A render with the state (st, ps): the effect runs when notifSig differs from the
\* one of its last run; its cleanup clears that run's timer and a new timer is set
\* whose callback closes over st and ps.
Render(st, ps) ==
  \E notifSig \in { buildNotificationSignature(st, ps) } :
     /\ settings' = st
     /\ people' = ps
     /\ IF notifSig = effect.sig
        THEN UNCHANGED << effect, timers >>
        ELSE /\ effect' = [sig |-> notifSig, timer |-> effect.timer + 1]
             /\ timers' = ClearTimeout(timers, effect.timer) \cup
                  { [ id |-> effect.timer + 1, due |-> clock + DebounceTicks,
                      settings |-> st, people |-> ps ] }

Init ==
  /\ clock = StartClock
  /\ platform \in { "ios", "android" }
  /\ perm = "undetermined"
  /\ queue = { OldEntry }
  /\ \E sp \in StoredPeople, ss \in StoredSettings : storage = [people |-> sp, settings |-> ss]
  /\ people = << >>
  /\ settings = DefaultSettings
  /\ initFx = [pc |-> "getPerm", wake |-> 0]
  /\ effect = [sig |-> buildNotificationSignature(DefaultSettings, << >>), timer |-> 1]
  /\ timers = { [ id |-> 1, due |-> StartClock + DebounceTicks,
                  settings |-> DefaultSettings, people |-> << >> ] }
  /\ recons = << >>
  /\ hist = [ticks |-> 0, changes |-> 0, failures |-> 0, committed |-> << >>,
             reenabled |-> FALSE]

InFlight(r) == r.pc \notin { "done", "skipped", "failed" }

\* Time passes while something is pending; a timer's callback runs when its delay has
\* elapsed.
Tick ==
  /\ hist.ticks < MaxTicks
  /\ \A t \in timers : clock + 1 <= t.due
  /\ timers # { } \/ initFx.pc # "done" \/ \E k \in 1..Len(recons) : InFlight(recons[k])
  /\ clock' = clock + 1
  /\ hist' = [hist EXCEPT !.ticks = @ + 1]
  /\ UNCHANGED << platform, perm, queue, storage, people, settings, initFx, effect,
                  timers, recons >>

-----------------------------------------------------------------------------
(* Init effect (index.tsx): permissions, channels, load, splash            *)

InitAfterPerms == IF platform = "android" THEN "chan1" ELSE "loadPeople"

\* { ...s, ...st }
Merge(s, st) == [f \in DOMAIN s |-> IF f \in DOMAIN st THEN st[f] ELSE s[f]]

InitGetPermsReturn ==
  /\ initFx.pc = "getPerm"
  /\ initFx' = [initFx EXCEPT !.pc = IF perm # "granted" THEN "reqPerm" ELSE InitAfterPerms]
  /\ UNCHANGED << clock, platform, perm, queue, storage, people, settings, effect,
                  timers, recons, hist >>

InitRequestPermsReturn ==
  /\ initFx.pc = "reqPerm"
  /\ \E answer \in { "granted", "denied" } : perm' = answer
  /\ initFx' = [initFx EXCEPT !.pc = InitAfterPerms]
  /\ UNCHANGED << clock, platform, queue, storage, people, settings, effect, timers,
                  recons, hist >>

\* setNotificationChannelAsync returns or rejects; a rejection is caught by the init
\* effect's catch, which skips the loads and hides the splash screen.
InitChannelReturn ==
  /\ initFx.pc \in { "chan1", "chan2" }
  /\ \E ok \in BOOLEAN :
       /\ ok \/ hist.failures < MaxFailures
       /\ initFx' = [initFx EXCEPT !.pc = IF ~ok THEN "done"
                                          ELSE IF initFx.pc = "chan1" THEN "chan2"
                                          ELSE "loadPeople"]
       /\ hist' = IF ok THEN hist ELSE [hist EXCEPT !.failures = @ + 1]
  /\ UNCHANGED << clock, platform, perm, queue, storage, people, settings, effect,
                  timers, recons >>

\* getJSONAsync(K_PEOPLE) returns; if (ps) setPeople(ps).
InitLoadPeople ==
  /\ initFx.pc = "loadPeople"
  /\ initFx' = [initFx EXCEPT !.pc = "loadSettings"]
  /\ Render(settings, IF storage.people.present THEN storage.people.value ELSE people)
  /\ UNCHANGED << clock, platform, perm, queue, storage, recons, hist >>

\* getJSONAsync(K_SETTINGS) returns; if (st) setSettings(s => ({ ...s, ...st })); then
\* the effect sleeps for 1500 ms.
InitLoadSettings ==
  /\ initFx.pc = "loadSettings"
  /\ initFx' = [pc |-> "sleep", wake |-> clock + DebounceTicks]
  /\ Render(IF storage.settings.present THEN Merge(settings, storage.settings.value)
            ELSE settings, people)
  /\ UNCHANGED << clock, platform, perm, queue, storage, recons, hist >>

\* The sleep is over: the splash screen is hidden and the user can act.
InitWake ==
  /\ initFx.pc = "sleep"
  /\ clock >= initFx.wake
  /\ initFx' = [initFx EXCEPT !.pc = "done"]
  /\ UNCHANGED << clock, platform, perm, queue, storage, people, settings, effect,
                  timers, recons, hist >>

-----------------------------------------------------------------------------
(* User changes (index.tsx)                                                *)

CanChange == initFx.pc = "done" /\ hist.changes < MaxChanges

Changed == hist' = [hist EXCEPT !.changes = @ + 1]

IndexOfId(ps, id) ==
  IF \E k \in 1..Len(ps) : ps[k].id = id
  THEN CHOOSE k \in 1..Len(ps) : ps[k].id = id /\ \A h \in 1..(k - 1) : ps[h].id # id
  ELSE 0

\* hist.reenabled records that a save turned a person's sameDayReminder from false
\* to true.
saveEditing ==
  /\ CanChange
  /\ \E editingPerson \in EditedPersons :
       \E k \in { IndexOfId(people, editingPerson.id) } :
         /\ Render(settings, IF k > 0 THEN [people EXCEPT ![k] = editingPerson]
                             ELSE Append(people, editingPerson))
         /\ hist' = [hist EXCEPT !.changes = @ + 1,
                                 !.reenabled = \/ hist.reenabled
                                               \/ /\ k > 0
                                                  /\ people[k].sameDayReminder = "false"
                                                  /\ editingPerson.sameDayReminder = "true"]
  /\ UNCHANGED << clock, platform, perm, queue, storage, initFx, recons >>

confirmDelete ==
  /\ CanChange
  /\ \E id \in DeletedIds :
       /\ IndexOfId(people, id) > 0
       /\ Render(settings, SelectSeq(people, LAMBDA x : x.id # id))
  /\ Changed
  /\ UNCHANGED << clock, platform, perm, queue, storage, initFx, recons >>

\* A control of the settings sheet or of the list header is used.
setSettings ==
  /\ CanChange
  /\ \E patch \in SettingsPatches(settings) : Render(Merge(settings, patch), people)
  /\ Changed
  /\ UNCHANGED << clock, platform, perm, queue, storage, initFx, recons >>

-----------------------------------------------------------------------------
(* Scheduling gateway: rescheduleAllNotifications as a process             *)
(*                                                                         *)
(* pc names the awaited call: getPerm, reqPerm (ensureNotifPerms), chan1,  *)
(* chan2 (ensureAndroidChannels), cancel (clearAllScheduled), w_next,      *)
(* d_next (scheduleSafe's getNextTriggerDateAsync) and w_sched, d_sched    *)
(* (scheduleNotificationAsync) of the weekly and the daily pass.  It ends  *)
(* as done (returned after both passes), skipped (returned at the          *)
(* permission check) or failed (rejected; index.tsx logs the error).       *)

\* The debounce timer's callback: rescheduleAllNotifications(settings, people, L) runs
\* up to its first await.
NewRecon(t) ==
  [ settings |-> t.settings, people |-> t.people, L |-> t.settings.locale,
    pc |-> "getPerm", now |-> 0, first |-> 0, i |-> 0, cur |-> NoEntry, checkedAt |-> 0,
    \* what follows records the call's history; no code reads it
    unchanged |-> buildNotificationSignature(t.settings, t.people) = hist.committed,
    timer |-> t.id, delay |-> clock - (t.due - DebounceTicks),
    lastRun |-> effect.timer,
    ok |-> "pending", channelCalls |-> 0, cancelCalls |-> 0,
    cancelReturned |-> FALSE, scheduleCalls |-> 0, scheduleBeforeCancel |-> FALSE,
    dropped |-> 0, rejectedBy |-> "none", abandoned |-> FALSE ]

\* scheduleDaily from iteration r.i on, at clock reading clk, up to its next await.
\* scheduleDaily at iteration j: the loop is over, or it calls scheduleSafe.
DailyAwait(r, clk, j) ==
  IF j >= horizonDays(platform)
  THEN [r EXCEPT !.pc = "done", !.i = j, !.cur = NoEntry]
  ELSE [r EXCEPT !.pc = "d_next", !.i = j,
                 !.cur = DailyEntry(r.settings, r.people, r.now, clk, j)]

ContinueDaily(r, clk) ==
  DailyAwait(r, clk, DailyNext(r.settings, r.people, r.now, clk, r.i, horizonDays(platform)))

EnterDaily(r, clk) == ContinueDaily([r EXCEPT !.now = clk, !.i = 0], clk)

\* scheduleWeekly from iteration r.i on, up to its next await; scheduleDaily follows.
\* scheduleWeekly at iteration j: the loop is over and scheduleDaily starts, or it
\* calls scheduleSafe.
WeeklyAwait(r, clk, j) ==
  IF j >= horizonWeeks(platform)
  THEN EnterDaily(r, clk)
  ELSE [r EXCEPT !.pc = "w_next", !.i = j, !.cur = WeeklyEntry(r.people, r.first, j)]

ContinueWeekly(r, clk) ==
  WeeklyAwait(r, clk, WeeklyNext(r.people, r.now, r.first, r.i, horizonWeeks(platform)))

EnterWeekly(r, clk) ==
  IF ~r.settings.weeklySummaryEnabled
  THEN EnterDaily(r, clk)
  ELSE ContinueWeekly(
         [r EXCEPT !.now = clk, !.i = 0,
                   !.first = nextAnchorForWeekday(r.settings.weeklySummaryWeekday,
                                                  r.settings.weeklySummaryHour,
                                                  r.settings.weeklySummaryMinute, clk)],
         clk)

\* The loop of the pass r is in goes on with its next iteration.
ContinuePass(r, clk) ==
  IF r.pc \in { "w_next", "w_sched" }
  THEN ContinueWeekly([r EXCEPT !.i = @ + 1], clk)
  ELSE ContinueDaily([r EXCEPT !.i = @ + 1], clk)

\* clearAllScheduled called without await: the cancel is issued and scheduleWeekly
\* starts at once.
IssueCancel_NotAwaited(r) == EnterWeekly([r EXCEPT !.cancelCalls = @ + 1], clock)

\* clearAllScheduled is called: cancelAllScheduledNotificationsAsync is issued.
IssueCancel(r) == [r EXCEPT !.pc = "cancel", !.cancelCalls = @ + 1]

\* ensureAndroidChannels is called, and clearAllScheduled after it.
EnterChannels(r) ==
  IF platform # "android" THEN IssueCancel(r)
  ELSE [r EXCEPT !.pc = "chan1", !.channelCalls = @ + 1]

\* rescheduleAllNotifications without its permission check.
AfterPerms_NoCheck(r, ok) == EnterChannels([r EXCEPT !.ok = IF ok THEN "true" ELSE "false"])

\* rescheduleAllNotifications after ensureNotifPerms has returned ok: if (!ok) return.
AfterPerms(r, ok) ==
  IF ~ok THEN [r EXCEPT !.pc = "skipped", !.ok = "false"]
  ELSE EnterChannels([r EXCEPT !.ok = "true"])

\* scheduleSafe's test without the safety margin.
TooSoon_NoMargin(targetMs, clk) == targetMs = InvalidDate \/ targetMs <= clk

\* scheduleSafe's test of the trigger against the clock reading clk.
TooSoon(targetMs, clk) == targetMs = InvalidDate \/ targetMs <= clk + SafetyMarginTicks

\* A call that has returned or rejected keeps no local variables.
Settle(r) ==
  IF InFlight(r) THEN r
  ELSE [r EXCEPT !.now = 0, !.first = 0, !.i = 0, !.cur = NoEntry, !.checkedAt = 0]

\* Reconciliation k moves to r, with one more failed service call when failed.
Advance(k, r, failed) ==
  \E to \in { r } :
    /\ recons' = [recons EXCEPT ![k] = Settle(to)]
    /\ hist' = [hist EXCEPT !.failures = IF failed THEN @ + 1 ELSE @,
                            !.committed = IF to.pc = "done"
                                          THEN buildNotificationSignature(to.settings, to.people)
                                          ELSE @]

TimerFire ==
  /\ Len(recons) < MaxRecons
  /\ \E t \in timers :
       /\ t.due <= clock
       /\ timers' = timers \ { t }
       /\ recons' = Append(recons, NewRecon(t))
  /\ UNCHANGED << clock, platform, perm, queue, storage, people, settings, initFx,
                  effect, hist >>

\* ensureNotifPerms: getPermissionsAsync returns.
GetPermsReturn ==
  /\ \E k \in 1..Len(recons) :
       /\ recons[k].pc = "getPerm"
       /\ Advance(k, IF perm # "granted" THEN [recons[k] EXCEPT !.pc = "reqPerm"]
                     ELSE AfterPerms(recons[k], TRUE), FALSE)
  /\ UNCHANGED << clock, platform, perm, queue, storage, people, settings, initFx,
                  effect, timers >>

\* ensureNotifPerms: requestPermissionsAsync returns the user's answer.
RequestPermsReturn ==
  /\ \E k \in 1..Len(recons), answer \in { "granted", "denied" } :
       /\ recons[k].pc = "reqPerm"
       /\ perm' = answer
       /\ Advance(k, AfterPerms(recons[k], answer = "granted"), FALSE)
  /\ UNCHANGED << clock, platform, queue, storage, people, settings, initFx, effect,
                  timers >>

\* ensureAndroidChannels: a setNotificationChannelAsync returns or rejects.
ChannelReturn ==
  /\ \E k \in 1..Len(recons), ok \in BOOLEAN :
       /\ recons[k].pc \in { "chan1", "chan2" }
       /\ ok \/ hist.failures < MaxFailures
       /\ Advance(k, IF ~ok THEN [recons[k] EXCEPT !.pc = "failed", !.rejectedBy = "createChannel"]
                     ELSE IF recons[k].pc = "chan1"
                          THEN [recons[k] EXCEPT !.pc = "chan2", !.channelCalls = @ + 1]
                          ELSE IssueCancel(recons[k]), ~ok)
  /\ UNCHANGED << clock, platform, perm, queue, storage, people, settings, initFx,
                  effect, timers >>

\* A clearAllScheduled without its try/catch: the rejection ends the call of
\* rescheduleAllNotifications.
AfterCancel_Rethrown(r, ok, clk) ==
  IF ok THEN EnterWeekly([r EXCEPT !.cancelReturned = TRUE], clk)
  ELSE [r EXCEPT !.pc = "failed", !.cancelReturned = TRUE, !.rejectedBy = "cancelAll"]

\* clearAllScheduled returns whether the service's call returned or rejected (try,
\* catch, ignore), and scheduleWeekly is called.
AfterCancel(r, ok, clk) == EnterWeekly([r EXCEPT !.cancelReturned = TRUE], clk)

\* clearAllScheduled: cancelAllScheduledNotificationsAsync returns, having emptied the
\* queue, or rejects, which is ignored; scheduleWeekly starts.
CancelAllReturn ==
  /\ \E k \in 1..Len(recons), ok \in BOOLEAN :
       /\ recons[k].pc = "cancel"
       /\ ok \/ hist.failures < MaxFailures
       /\ queue' = IF ok THEN { } ELSE queue
       /\ Advance(k, AfterCancel(recons[k], ok, clock), ~ok)
  /\ UNCHANGED << clock, platform, perm, storage, people, settings, initFx, effect,
                  timers >>

\* scheduleSafe: getNextTriggerDateAsync returns (or throws, which is ignored: the
\* trigger is a Date); the entry is dropped or scheduleNotificationAsync is issued.
NextTriggerReturn ==
  /\ \E k \in 1..Len(recons) :
       LET r == recons[k]
       IN /\ r.pc \in { "w_next", "d_next" }
          /\ Advance(k, IF TooSoon(r.cur.trigger, clock)
                        THEN ContinuePass([r EXCEPT !.dropped = @ + 1], clock)
                        ELSE [r EXCEPT !.pc = IF r.pc = "w_next" THEN "w_sched" ELSE "d_sched",
                                       !.checkedAt = clock, !.scheduleCalls = @ + 1,
                                       !.scheduleBeforeCancel = @ \/ ~r.cancelReturned],
                        FALSE)
  /\ UNCHANGED << clock, platform, perm, queue, storage, people, settings, initFx,
                  effect, timers >>

\* scheduleNotificationAsync returns, the notification queued, or rejects.  The queued
\* entry records which call submitted it and the clock reading of scheduleSafe's test.
ScheduleReturn ==
  /\ \E k \in 1..Len(recons), ok \in BOOLEAN :
       LET r == recons[k]
       IN /\ r.pc \in { "w_sched", "d_sched" }
          /\ ok \/ hist.failures < MaxFailures
          /\ queue' = IF ok
                      THEN queue \cup { [ type |-> r.cur.type, trigger |-> r.cur.trigger,
                                          personIds |-> r.cur.personIds, by |-> k,
                                          n |-> r.scheduleCalls, submittedAt |-> r.checkedAt ] }
                      ELSE queue
          /\ \E next \in { ContinuePass(r, clock) } :
               Advance(k, IF ok THEN next
                          ELSE [r EXCEPT !.pc = "failed", !.rejectedBy = "scheduleAt",
                                         !.abandoned = InFlight(next)],
                       ~ok)
  /\ UNCHANGED << clock, platform, perm, storage, people, settings, initFx, effect,
                  timers >>

-----------------------------------------------------------------------------

Next ==
  \/ Tick
  \/ InitGetPermsReturn \/ InitRequestPermsReturn \/ InitChannelReturn
  \/ InitLoadPeople \/ InitLoadSettings \/ InitWake
  \/ saveEditing \/ confirmDelete \/ setSettings
  \/ TimerFire \/ GetPermsReturn \/ RequestPermsReturn \/ ChannelReturn
  \/ CancelAllReturn \/ NextTriggerReturn \/ ScheduleReturn

Spec == Init /\ [][Next]_vars

-----------------------------------------------------------------------------
(* Properties                                                              *)

\* The calls of rescheduleAllNotifications that have neither returned nor rejected.
Running == { k \in 1..Len(recons) : InFlight(recons[k]) }

\* The last call returned after both passes, none is running and no service call
\* failed.
SettledClean ==
  /\ Len(recons) > 0
  /\ Running = { }
  /\ hist.failures = 0
  /\ recons[Len(recons)].pc = "done"

\* C1: at most one call of rescheduleAllNotifications is in flight at any time.
C1_AtMostOneInFlight == Cardinality(Running) <= 1

\* C2: whenever no reconciliation is in flight (the last one having returned normally
\* and no service call having failed), every queued notification was submitted by the
\* most recently started reconciliation, and no two queued notifications have the same
\* channel and the same fire time.
C2_OnlyLatestPlanQueued ==
  SettledClean =>
    /\ \A e \in queue : e.by = Len(recons)
    /\ \A e, f \in queue : (e.type = f.type /\ e.trigger = f.trigger) => e = f

\* The init effect is over, no debounce timer is pending and no call is running.
Quiescent == initFx.pc = "done" /\ timers = { } /\ Running = { }

\* What the planner reads of the settings and of the people.
PlannerView(st, ps) ==
  [ weekly |-> << st.weeklySummaryEnabled, st.weeklySummaryWeekday,
                  st.weeklySummaryHour, st.weeklySummaryMinute >>,
    daily |-> << st.sameDayHour, st.sameDayMinute >>,
    locale |-> st.locale,
    people |-> [k \in 1..Len(ps) |->
                  << ps[k].id, ps[k].name, ps[k].type, ps[k].dateISO, SameDayOn(ps[k]) >>] ]

\* The queued notification e is one the planner plans from (st, ps): a weekly summary
\* at the configured weekday and time listing the events of its week, or a same-day
\* reminder at the configured time listing the people whose day it is.
PlannedFrom(st, ps, e) ==
  IF e.type = "weekly-summary"
  THEN /\ st.weeklySummaryEnabled
       /\ GetDay(e.trigger) = st.weeklySummaryWeekday % 7
       /\ e.trigger = setTimeToDate(e.trigger, st.weeklySummaryHour, st.weeklySummaryMinute)
       /\ e.personIds # << >>
       /\ e.personIds = Ids(WeekEvents(ps, e.trigger))
  ELSE /\ e.trigger = setTimeToDate(e.trigger, st.sameDayHour, st.sameDayMinute)
       /\ e.personIds # << >>
       /\ e.personIds = Ids(Todays(ps, e.trigger))

\* C3: once the changes have stopped and everything has settled (permission granted,
\* no call skipped, no service call failed), a reconciliation has run with the final
\* people and settings and the queue holds what it submitted, all of it planned from
\* that final snapshot.
C3_SettlesOnFinalSnapshot ==
  ( /\ Quiescent
    /\ perm = "granted"
    /\ hist.failures = 0
    /\ \A k \in 1..Len(recons) : recons[k].pc # "skipped" )
  => /\ Len(recons) > 0
     /\ recons[Len(recons)].pc = "done"
     /\ PlannerView(recons[Len(recons)].settings, recons[Len(recons)].people)
          = PlannerView(settings, people)
     /\ \A e \in queue : e.by = Len(recons) /\ PlannedFrom(settings, people, e)

\* C4: a rejected scheduleAt call leaves no planned notification of its reconciliation
\* unsubmitted: the loop that made the call goes on, and the daily pass follows the
\* weekly one.
C4_FailureLeavesOthersSubmitted ==
  \A k \in 1..Len(recons) : recons[k].rejectedBy = "scheduleAt" => ~recons[k].abandoned

\* C5: a call whose permission check fails is over at once, having called neither
\* createChannel, cancelAll nor scheduleAt, and none of its steps changes the queue.
C5_NoPermissionNoCalls ==
  /\ [](\A k \in 1..Len(recons) :
          recons[k].ok = "false" =>
            /\ recons[k].pc = "skipped"
            /\ recons[k].channelCalls = 0
            /\ recons[k].cancelCalls = 0
            /\ recons[k].scheduleCalls = 0)
  /\ [][\A k \in 1..Len(recons) :
          (recons'[k] # recons[k] /\ recons'[k].ok # "true") => queue' = queue]_vars

\* A call was skipped for want of permission while the queue holds a notification.
C5_Witness ==
  \E k \in 1..Len(recons) :
    recons[k].pc = "skipped" /\ recons[k].ok = "false" /\ OldEntry \in queue

\* C6 as stated: every call that has passed the permission check and is over has
\* issued cancel-all exactly once, before any scheduleAt.
C6_CancelExactlyOnce ==
  \A k \in 1..Len(recons) :
    (recons[k].ok = "true" /\ ~InFlight(recons[k]))
      => (recons[k].cancelCalls = 1 /\ ~recons[k].scheduleBeforeCancel)

\* C6, amended: a call issues cancel-all at most once; it has issued it once, and
\* cancel-all has returned, before it issues a scheduleAt; a call that has passed the
\* permission check and is over has issued it exactly once unless createChannel
\* rejected, and then it has issued neither cancel-all nor scheduleAt.
C6_CancelOnceBeforeSchedule ==
  \A k \in 1..Len(recons) :
    /\ recons[k].cancelCalls <= 1
    /\ recons[k].scheduleCalls > 0 => (recons[k].cancelCalls = 1 /\ recons[k].cancelReturned)
    /\ ~recons[k].scheduleBeforeCancel
    /\ (recons[k].ok = "true" /\ ~InFlight(recons[k]) /\ recons[k].rejectedBy # "createChannel")
         => recons[k].cancelCalls = 1
    /\ recons[k].rejectedBy = "createChannel"
         => (recons[k].cancelCalls = 0 /\ recons[k].scheduleCalls = 0)

\* A call has returned after cancel-all and two scheduleAt calls.
C6_Witness ==
  \E k \in 1..Len(recons) :
    recons[k].pc = "done" /\ recons[k].cancelReturned /\ recons[k].scheduleCalls >= 2

\* C7: every notification handed to the service fires later than the clock reading of
\* its submission plus the safety margin; dropping an entry raises no error, changes
\* nothing in the queue and lets the pass go on with its next entry.
C7_OnlySafelyFutureSubmitted ==
  /\ [](\A e \in queue : e.by # 0 => e.trigger > e.submittedAt + SafetyMarginTicks)
  /\ [][\A k \in 1..Len(recons) :
          recons'[k].dropped > recons[k].dropped =>
            /\ recons'[k].pc \in { "w_next", "d_next", "done" }
            /\ recons'[k].rejectedBy = "none"
            /\ hist'.failures = hist.failures
            /\ queue' = queue]_vars

\* A call dropped an entry that was in the future when its pass started, and went on to
\* submit a later one.
C7_Witness ==
  \E k \in 1..Len(recons) :
    /\ recons[k].dropped >= 1
    /\ \E e \in queue : e.by = k /\ e.type = "daily-reminder"

\* C8: at most one debounce timer is pending, and it is the one set at the last change
\* of the signature, holding the people and settings of that change; every call of
\* rescheduleAllNotifications was started by the timer of the last change before it,
\* DebounceMs after that change, and no timer starts two calls.
C8_OneDebouncedReconciliation ==
  /\ Cardinality(timers) <= 1
  /\ \A t \in timers :
       /\ t.id = effect.timer
       /\ buildNotificationSignature(t.settings, t.people) = effect.sig
  /\ \A k \in 1..Len(recons) :
       /\ recons[k].delay = DebounceTicks
       /\ recons[k].timer = recons[k].lastRun
       /\ \A h \in 1..(k - 1) : recons[h].timer < recons[k].timer

\* The mount, the loaded people and the loaded settings each set a timer within the
\* window of the one before: a single call has started, by the third timer, with the
\* loaded people and settings, and no timer is pending.
C8_Witness ==
  /\ Len(recons) = 1
  /\ recons[1].timer = 3
  /\ recons[1].people = people /\ Len(people) = 2
  /\ recons[1].settings = settings
  /\ timers = { }

\* C9: no call of rescheduleAllNotifications starts with the signature of the last
\* call that returned after both passes.
C9_NoRunOnCommittedSignature ==
  \A k \in 1..Len(recons) : ~recons[k].unchanged

\* C10: a call that has issued its cancel-all and is over has attempted every entry of
\* its plan.
C10_PlanAttemptedAfterCancel ==
  \A k \in 1..Len(recons) :
    (recons[k].cancelCalls > 0 /\ ~InFlight(recons[k]))
      => (recons[k].pc = "done" \/ ~recons[k].abandoned)

-----------------------------------------------------------------------------
(* The pure functions on their own: each specification below draws the     *)
(* arguments of a function in its initial state and applies the function   *)
(* in its actions.  The variables keep their meaning: people, settings,    *)
(* platform and clock are the arguments, effect.sig is a computed          *)
(* signature, queue is the list of requests a pass hands to scheduleSafe   *)
(* in the order of the calls, and hist is the list of functions applied.   *)

MaxPeople == 3

\* The arrays of at most n people of the set S in which no id occurs twice.
Arrangements(S, n) ==
  { s \in UNION { [1..k -> S] : k \in 0..n } :
      \A i, j \in 1..Len(s) : i # j => s[i].id # s[j].id }

\* The arrays with the elements of ps in another order.
Reordered(ps) ==
  { [k \in 1..Len(ps) |-> ps[f[k]]] : f \in Permutations(1..Len(ps)) }

\* The variables no pure function reads or writes.
Detached ==
  /\ perm = "granted"
  /\ storage = [people |-> [present |-> FALSE], settings |-> [present |-> FALSE]]
  /\ initFx = [pc |-> "done", wake |-> 0]
  /\ timers = { }
  /\ recons = << >>

\* The people the arguments are made of.
PeoplePool == { Ann, AnnNoReminder, AnnStored, Bob, Cat, Dan, Eve }

\* Among the people can be one whose name holds the separator '|'.
SigInit ==
  /\ Detached
  /\ clock = StartClock
  /\ platform = "ios"
  /\ queue = << >>
  /\ people \in Arrangements(PeoplePool \cup { [Eve EXCEPT !.id = << "f" >>,
                                                          !.name = << "E", "|", "e" >>] },
                             MaxPeople)
  /\ settings \in { [DefaultSettings EXCEPT !.weeklySummaryEnabled = w, !.locale = l] :
                      w \in BOOLEAN, l \in { "en", "nl" } }
  /\ effect = [sig |-> << >>, timer |-> 0]
  /\ hist = << >>

\* notifSig = buildNotificationSignature(settings, people)
Sign ==
  /\ hist = << >>
  /\ effect' = [effect EXCEPT !.sig = buildNotificationSignature(settings, people)]
  /\ hist' = << "buildNotificationSignature" >>
  /\ UNCHANGED << clock, platform, perm, queue, storage, people, settings, initFx,
                  timers, recons >>

SigSpec == SigInit /\ [][Sign]_vars

\* C11: the signature computed for a people collection and settings is the
\* signature of every other order of the same collection with the same settings.
C11_SignatureIgnoresOrder ==
  hist = << "buildNotificationSignature" >> =>
    \A ps \in Reordered(people) : buildNotificationSignature(settings, ps) = effect.sig

\* Three people stored in an order that is not the order of their signatures.
C11_Witness ==
  /\ hist = << "buildNotificationSignature" >>
  /\ people = << Dan, Bob, AnnStored >>
  /\ \E ps \in Reordered(people) : ps # people

-----------------------------------------------------------------------------
(* The planner on its own: scheduleWeekly and then scheduleDaily, as       *)
(* rescheduleAllNotifications calls them, for settings, people, platform   *)
(* and a clock reading that stays the same during the two calls.           *)

\* The clock reads a time around the reminder time of Ann's and Cat's day, ten days
\* before it, or in the last weeks of the year.  The weekly summary is off, or on
\* for Thursday or Saturday, before, at or after noon.
PlanInit ==
  /\ Detached
  /\ clock \in { MakeDate(2024, 5, 15, 8, 0), MakeDate(2024, 5, 15, 9, 0),
                 MakeDate(2024, 5, 15, 9, 1), MakeDate(2024, 5, 5, 10, 0),
                 MakeDate(2024, 11, 20, 10, 0) }
  /\ platform \in { "ios", "android" }
  /\ queue = << >>
  /\ people \in Arrangements(PeoplePool, MaxPeople)
  /\ settings \in
       { [DefaultSettings EXCEPT !.weeklySummaryEnabled = FALSE, !.locale = l] :
           l \in { "en", "nl" } } \cup
       { [DefaultSettings EXCEPT !.weeklySummaryWeekday = wd, !.weeklySummaryHour = h,
                                 !.locale = l] :
           wd \in { 4, 6 }, h \in { 9, 12, 18 }, l \in { "en", "nl" } }
  /\ effect = [sig |-> << >>, timer |-> 0]
  /\ hist = << >>

PlanWeekly ==
  /\ hist = << >>
  /\ queue' = WeeklyPlan(settings, people, platform, clock)
  /\ hist' = << "scheduleWeekly" >>
  /\ UNCHANGED << clock, platform, perm, storage, people, settings, initFx, effect,
                  timers, recons >>

PlanDaily ==
  /\ hist = << "scheduleWeekly" >>
  /\ queue' = queue \o DailyPlan(settings, people, platform, clock)
  /\ hist' = << "scheduleWeekly", "scheduleDaily" >>
  /\ UNCHANGED << clock, platform, perm, storage, people, settings, initFx, effect,
                  timers, recons >>

PlanSpec == PlanInit /\ [][PlanWeekly \/ PlanDaily]_vars

Planned == hist = << "scheduleWeekly", "scheduleDaily" >>

\* The requests of the plan of the given type.
Requests(type) == SelectSeq(queue, LAMBDA e : e.type = type)

\* The requests of the daily pass for the calendar day `day`.
DailyFor(day) == SelectSeq(queue, LAMBDA e : e.type = "daily-reminder" /\ DayOf(e.trigger) = day)

\* The person's recorded month and day are those of the calendar day `day`.
FallsOn(p, day) ==
  /\ parseYmd(p.dateISO).m = Ymd(day).m
  /\ parseYmd(p.dateISO).d = Ymd(day).d

\* The reminder instant of the calendar day `day`.
ReminderAt(day) ==
  day * TicksPerDay + (settings.sameDayHour * 60 + settings.sameDayMinute) * TicksPerMinute

DailyOf(id) ==
  SelectSeq(queue, LAMBDA e : e.type = "daily-reminder"
                              /\ \E k \in 1..Len(e.personIds) : e.personIds[k] = id)

\* The string s contains the string sub.
Contains(s, sub) == \E k \in 1..(Len(s) - Len(sub) + 1) : SubSeq(s, k, k + Len(sub) - 1) = sub

\* The body names the person p with the count yrs: the name, an emoji, the count.
NamesWithAge(body, p, yrs) ==
  \E k \in 1..Len(body) :
    Contains(body, p.name \o << " ", body[k], " " >> \o NumStr(yrs) \o << " " >>)

\* The plan has exactly one daily notification for p: at today's reminder instant,
\* naming p with the year of today minus the recorded year.
OneTodayFor(p) ==
  /\ Len(DailyOf(p.id)) = 1
  /\ DailyOf(p.id)[1].trigger = ReminderAt(DayOf(clock))
  /\ NamesWithAge(DailyOf(p.id)[1].body, p, GetFullYear(clock) - parseYmd(p.dateISO).y)

NextYearReminder(p) ==
  MakeDate(GetFullYear(clock) + 1, parseYmd(p.dateISO).m - 1, parseYmd(p.dateISO).d,
           settings.sameDayHour, settings.sameDayMinute)

\* Today is p's day, p is reminded of, and today's reminder instant is not after now.
MissedToday(p) ==
  /\ FallsOn(p, DayOf(clock))
  /\ p.sameDayReminder # "false"
  /\ ReminderAt(DayOf(clock)) <= clock

-----------------------------------------------------------------------------
(* The same-day reminder of a person, from the edit form to the queue       *)

\* The daily entry e lists the person with the given id.
Listed(e, id) == \E n \in 1..Len(e.personIds) : e.personIds[n] = id

\* The body scheduleDaily composed for the daily entry e that call e.by submitted.
SubmittedBody(e) ==
  buildDailyBody(e.trigger, Todays(recons[e.by].people, e.trigger), recons[e.by].L)

\* Of the people a reconciliation was called with, a daily notification it submitted
\* neither lists nor names anyone whose sameDayReminder is false, and it lists and
\* names everyone whose sameDayReminder is true and whose date falls on its day.
RemindedOnly ==
  \A e \in queue :
    e.type = "daily-reminder" /\ e.by >= 1 =>
      \A i \in 1..Len(recons[e.by].people) :
        \E p \in { recons[e.by].people[i] } :
          /\ p.sameDayReminder = "false" =>
               ~Listed(e, p.id) /\ ~Contains(SubmittedBody(e), p.name)
          /\ p.sameDayReminder = "true" /\ FallsOn(p, DayOf(e.trigger)) =>
               Listed(e, p.id) /\ Contains(SubmittedBody(e), p.name)

\* A step that turns a person's sameDayReminder from false to true sets a debounce
\* timer whose reconciliation is called with the people of after the step.
ReenablingSetsTimer ==
  \A i \in 1..Len(people) :
    /\ i <= Len(people')
    /\ people'[i].id = people[i].id
    /\ people[i].sameDayReminder = "false"
    /\ people'[i].sameDayReminder = "true"
    => \E t \in timers' : /\ t \notin timers
                          /\ t.people = people'
                          /\ t.due = clock + DebounceTicks

\* C15: a person whose sameDayReminder is false is in no daily notification a
\* reconciliation submits, neither in its personIds nor in its body; when the
\* flag is turned from false to true a reconciliation is scheduled with the new
\* people, and its daily notification for the person's day includes the person.
C15_ReminderRoundTrip == []RemindedOnly /\ [][ReenablingSetsTimer]_vars

\* Ann's reminder was turned off and on again in the edit form, and the
\* reconciliation of the last change has submitted today's notification with Ann.
C15_Witness ==
  /\ hist.reenabled
  /\ \E e \in queue :
       /\ e.type = "daily-reminder"
       /\ e.by >= 1
       /\ recons[e.by].timer = effect.timer
       /\ recons[e.by].people[1] = Ann
       /\ Listed(e, Ann.id)
       /\ DayOf(e.trigger) = DayOf(MakeDate(2024, 5, 15, 9, 0))

\* The people of the array whose date falls on the calendar day `day` and whose
\* sameDayReminder is true or unset.
RemindedOn(day) ==
  SelectSeq(people, LAMBDA p : FallsOn(p, day) /\ p.sameDayReminder # "false")

\* The names one after the other: a comma between two of them, the conjunction
\* conj before the last.
RECURSIVE Listing(_, _)
Listing(names, conj) ==
  IF Len(names) = 1 THEN names[1]
  ELSE IF Len(names) = 2 THEN names[1] \o conj \o names[2]
  ELSE names[1] \o << ",", " " >> \o Listing(Tail(names), conj)

\* The string s ends with the string tail.
EndsWith(s, tail) ==
  Len(s) >= Len(tail) /\ SubSeq(s, Len(s) - Len(tail) + 1, Len(s)) = tail

\* The daily request e is the one notification of its day for the people ps: it
\* lists all of them and its body is a sentence that ends with their listing.
OneForAll(e, ps) ==
  /\ e.personIds = Ids(ps)
  /\ EndsWith(e.body,
              Listing([k \in 1..Len(ps) |-> NameWithAge(ps[k], e.trigger, settings.locale)],
                      IF settings.locale = "nl" THEN << " ", "e", "n", " " >>
                      ELSE << " ", "a", "n", "d", " " >>))

-----------------------------------------------------------------------------
(* nextAnchorForWeekday on its own, its loop step by step: recons holds    *)
(* the frame of the one call, clock its argument now, settings the weekly  *)
(* weekday and time of day.                                                *)

MaxSteps == 8

\* Every weekday setting; midnight, the morning and the last minute of the day; now
\* on each day of a week in June and of the week around the new year, at midnight,
\* around 09:00, at 23:59 and half a second before the next midnight.
AnchorInit ==
  /\ perm = "granted"
  /\ storage = [people |-> [present |-> FALSE], settings |-> [present |-> FALSE]]
  /\ initFx = [pc |-> "done", wake |-> 0]
  /\ timers = { }
  /\ platform = "ios"
  /\ queue = << >>
  /\ people = << >>
  /\ effect = [sig |-> << >>, timer |-> 0]
  /\ hist = << >>
  /\ \E wd \in 1..7, hm \in { << 0, 0 >>, << 9, 0 >>, << 23, 59 >> } :
       settings = [DefaultSettings EXCEPT !.weeklySummaryWeekday = wd,
                                          !.weeklySummaryHour = hm[1],
                                          !.weeklySummaryMinute = hm[2]]
  /\ \E day \in { MakeDate(2024, 5, 10, 0, 0), MakeDate(2024, 11, 28, 0, 0) },
        d \in 0..6,
        t \in { 0, 9 * 60 * TicksPerMinute - 1, 9 * 60 * TicksPerMinute,
                9 * 60 * TicksPerMinute + 1, (23 * 60 + 59) * TicksPerMinute,
                TicksPerDay - 1 } :
       clock = day + d * TicksPerDay + t
  /\ recons = << [ pc |-> "loop", steps |-> 0,
                   anchor |-> MakeDate(GetFullYear(clock), GetMonth(clock), GetDate(clock),
                                       settings.weeklySummaryHour,
                                       settings.weeklySummaryMinute) ] >>

\* One pass of the loop body: anchor.setDate(anchor.getDate() + 1).
AnchorStep ==
  /\ recons[1].pc = "loop"
  /\ recons[1].steps < MaxSteps
  /\ AnchorLoops(recons[1].anchor, settings.weeklySummaryWeekday % 7, clock)
  /\ recons' = << [recons[1] EXCEPT !.steps = @ + 1,
                                    !.anchor = SetDate(@, GetDate(@) + 1)] >>
  /\ UNCHANGED << clock, platform, perm, queue, storage, people, settings, initFx,
                  effect, timers, hist >>

\* return anchor
AnchorReturn ==
  /\ recons[1].pc = "loop"
  /\ ~AnchorLoops(recons[1].anchor, settings.weeklySummaryWeekday % 7, clock)
  /\ recons' = << [recons[1] EXCEPT !.pc = "returned"] >>
  /\ hist' = << "nextAnchorForWeekday" >>
  /\ UNCHANGED << clock, platform, perm, queue, storage, people, settings, initFx,
                  effect, timers >>

AnchorSpec == AnchorInit /\ [][AnchorStep \/ AnchorReturn]_vars

\* Today at the configured weekly time of day.
WeeklyTimeToday ==
  DayOf(clock) * TicksPerDay
    + (settings.weeklySummaryHour * 60 + settings.weeklySummaryMinute) * TicksPerMinute

\* Sunday is 0 and Monday 1 for a calendar day, as for the setting modulo 7.
IsConfiguredWeekday(t) == (DayOf(t) + 1) % 7 = settings.weeklySummaryWeekday % 7

\* C17: the loop of nextAnchorForWeekday takes at most 7 steps of one day, and the
\* instant it returns is the earliest instant after now that is on the configured
\* weekday at the configured time; when today is that weekday and the time is not
\* after now, it is the instant 7 days after today's.
C17_EarliestAnchorWithinSevenSteps ==
  /\ recons[1].steps <= 7
  /\ recons[1].pc = "returned" =>
       /\ recons[1].anchor > clock
       /\ recons[1].anchor - WeekTicks <= clock
       /\ IsConfiguredWeekday(recons[1].anchor)
       /\ TimeOfDay(recons[1].anchor) = TimeOfDay(WeeklyTimeToday)
       /\ IsConfiguredWeekday(clock) /\ WeeklyTimeToday <= clock =>
            recons[1].anchor = WeeklyTimeToday + WeekTicks
       /\ recons[1].anchor = nextAnchorForWeekday(settings.weeklySummaryWeekday,
                                                  settings.weeklySummaryHour,
                                                  settings.weeklySummaryMinute, clock)

\* Now is Monday 2024-06-10T09:00 and the summary is set to Monday 09:00: the call
\* has returned the Monday after, reached in seven steps.
C17_Witness ==
  /\ recons[1].pc = "returned"
  /\ recons[1].steps = 7
  /\ clock = MakeDate(2024, 5, 10, 9, 0)
  /\ settings.weeklySummaryWeekday = 1
  /\ WeeklyTimeToday = clock
  /\ recons[1].anchor = MakeDate(2024, 5, 17, 9, 0)

\* The i-th weekly anchor of the plan: the first instant after now on the configured
\* weekday at the configured time, and i weeks on.
Anchor(i) ==
  nextAnchorForWeekday(settings.weeklySummaryWeekday, settings.weeklySummaryHour,
                       settings.weeklySummaryMinute, clock) + i * WeekTicks

\* p's date recurs, at noon of its day, in the seven days from the instant `from` on.
RecursInWindow(p, from) ==
  \E day \in DayOf(from)..DayOf(from + WeekTicks) :
    /\ FallsOn(p, day)
    /\ day * TicksPerDay + TicksPerDay \div 2 >= from
    /\ day * TicksPerDay + TicksPerDay \div 2 < from + WeekTicks

\* The weekly requests of the plan for the anchor `at`.
WeeklyAt(at) == SelectSeq(queue, LAMBDA e : e.type = "weekly-summary" /\ e.trigger = at)

\* The weekly pass reports the window that starts at `at`: with one notification
\* at `at` for exactly the people who recur in it, if there are any.
WindowReported(at) ==
  IF \E k \in 1..Len(people) : RecursInWindow(people[k], at)
  THEN /\ Len(WeeklyAt(at)) = 1
       /\ WeeklyAt(at)[1].personIds
            = Ids(SelectSeq(people, LAMBDA p : RecursInWindow(p, at)))
  ELSE Len(WeeklyAt(at)) = 0

\* C18: with the weekly summary enabled, for each of the horizonWeeks anchors the
\* weekly pass emits one notification at the anchor exactly when somebody's date
\* recurs in the seven days from the anchor on, and it covers exactly those
\* people; also for a window that starts in December and ends in January.
C18_EveryWindowReported ==
  Planned /\ settings.weeklySummaryEnabled =>
    \A i \in 0..(horizonWeeks(platform) - 1) : WindowReported(Anchor(i))

\* The weekly request for the anchor `at` exists and covers the person with this id.
CoveredAt(at, id) == \E n \in 1..Len(WeeklyAt(at)) : Listed(WeeklyAt(at)[n], id)

\* C19: whatever the weekly time of day, a person whose date falls on the calendar
\* day of a weekly anchor of the pass is covered by the notification of the window
\* that starts on that day and by that of no other window of the pass, in
\* particular not by that of the window that starts seven days earlier.
C19_AnchorDayInItsOwnWindow ==
  Planned /\ settings.weeklySummaryEnabled =>
    \A i \in 0..(horizonWeeks(platform) - 1) :
      \A k \in 1..Len(people) :
        FallsOn(people[k], DayOf(Anchor(i))) =>
          /\ CoveredAt(Anchor(i), people[k].id)
          /\ \A j \in 0..(horizonWeeks(platform) - 1) :
               j # i => ~CoveredAt(Anchor(j), people[k].id)

\* p's date recurs, at noon of its day, exactly at the instant t.
RecursAt(p, t) == FallsOn(p, DayOf(t)) /\ TimeOfDay(t) = TicksPerDay \div 2

\* C20: weekly windows are half-open.  A person whose recurrence instant is the end
\* instant of a window, seven days after its anchor, is not covered by that
\* window's notification and is covered by the next window's, and nobody is
\* covered by two weekly notifications of one pass.
C20_HalfOpenWindows ==
  Planned /\ settings.weeklySummaryEnabled =>
    \A k \in 1..Len(people) :
      /\ \A i \in 0..(horizonWeeks(platform) - 1) :
           RecursAt(people[k], Anchor(i) + WeekTicks) =>
             /\ ~CoveredAt(Anchor(i), people[k].id)
             /\ i + 1 < horizonWeeks(platform) => CoveredAt(Anchor(i + 1), people[k].id)
      /\ \A i, j \in 0..(horizonWeeks(platform) - 1) :
           CoveredAt(Anchor(i), people[k].id) /\ CoveredAt(Anchor(j), people[k].id)
             => i = j

\* The summary is set to Thursday 12:00 and Bob's day is Thursday 2024-06-20: the
\* window of 06-13 ends at Bob's noon; Bob is in the notification of 06-20 only.
C20_Witness ==
  /\ Planned
  /\ clock = MakeDate(2024, 5, 5, 10, 0)
  /\ settings.weeklySummaryWeekday = 4
  /\ settings.weeklySummaryHour = 12
  /\ people = << Bob >>
  /\ Anchor(1) = MakeDate(2024, 5, 13, 12, 0)
  /\ RecursAt(Bob, Anchor(1) + WeekTicks)
  /\ Len(Requests("weekly-summary")) = 1
  /\ Requests("weekly-summary")[1].trigger = MakeDate(2024, 5, 20, 12, 0)
  /\ Requests("weekly-summary")[1].personIds = << Bob.id >>

-----------------------------------------------------------------------------
(* nextOccurrence and ageOn on their own: people holds the one person      *)
(* whose dateISO is the argument, clock is the reference instant, and hist *)
(* lists the calls made with the values they returned.                     *)

\* The date has a valid month and day: in mid-year, at the ends of the year, February
\* 29, March 1, of a year still to come, or of a year that was not recorded as a
\* number (parseCSV keeps any text).  The reference instant is the start, the
\* noon or the last half second of a day of 2024, a leap year, or of 2025.
DateInit ==
  /\ Detached
  /\ platform = "ios"
  /\ queue = << >>
  /\ settings = DefaultSettings
  /\ effect = [sig |-> << >>, timer |-> 0]
  /\ hist = << >>
  /\ \E iso \in
         { << "1", "9", "9", "0", "-", "0", "6", "-", "1", "5" >>,
           << "1", "9", "8", "0", "-", "0", "1", "-", "0", "2" >>,
           << "2", "0", "0", "0", "-", "0", "2", "-", "2", "9" >>,
           << "1", "9", "9", "9", "-", "1", "2", "-", "3", "1" >>,
           << "2", "0", "2", "4", "-", "0", "3", "-", "0", "1" >>,
           << "2", "0", "3", "0", "-", "0", "6", "-", "1", "5" >>,
           << "2", "0", "2", "5", "-", "0", "1", "-", "0", "1" >>,
           << "?", "?", "?", "?", "-", "0", "6", "-", "1", "5" >> } :
       people = << [Ann EXCEPT !.dateISO = iso] >>
  /\ \E day \in 0..(DaysBeforeYear(2026) - 1), t \in { 0, TicksPerDay \div 2, TicksPerDay - 1 } :
       clock = day * TicksPerDay + t

CallNextOccurrence ==
  /\ hist = << >>
  /\ hist' = << [fn |-> "nextOccurrence", value |-> nextOccurrence(people[1].dateISO, clock)] >>
  /\ UNCHANGED << clock, platform, perm, queue, storage, people, settings, initFx,
                  effect, timers, recons >>

CallAgeOn ==
  /\ Len(hist) = 1
  /\ hist' = Append(hist, [fn |-> "ageOn", value |-> ageOn(people[1].dateISO, clock)])
  /\ UNCHANGED << clock, platform, perm, queue, storage, people, settings, initFx,
                  effect, timers, recons >>

DateSpec == DateInit /\ [][CallNextOccurrence \/ CallAgeOn]_vars

\* The instant t is the noon of a day of the reference year or the next, not before
\* the start of the reference day, and it is the reference day when the date of
\* the person falls on the reference day.
NoonFromReferenceDay(t) ==
  /\ TimeOfDay(t) = TicksPerDay \div 2
  /\ GetFullYear(t) - GetFullYear(clock) \in { 0, 1 }
  /\ t >= DayOf(clock) * TicksPerDay
  /\ FallsOn(people[1], DayOf(clock)) => DayOf(t) = DayOf(clock)

\* C21 as stated: for every dateISO with a valid month and day, February 29
\* included, and every reference instant, nextOccurrence returns the noon of a day
\* with the month and day of dateISO, in the reference year or the next, not before
\* the start of the reference day, and the reference day itself when it recurs on it.
C21_SameMonthAndDay ==
  Len(hist) >= 1 =>
    /\ NoonFromReferenceDay(hist[1].value)
    /\ FallsOn(people[1], DayOf(hist[1].value))

\* C21, with what February 29 gives: the same, where the day returned for a
\* February 29 in a year that is not a leap year is March 1 of that year.
C21_SameMonthAndDayOrMarchFirst ==
  Len(hist) >= 1 =>
    /\ NoonFromReferenceDay(hist[1].value)
    /\ IF /\ parseYmd(people[1].dateISO).m = 2
          /\ parseYmd(people[1].dateISO).d = 29
          /\ ~IsLeap(GetFullYear(hist[1].value))
       THEN Ymd(DayOf(hist[1].value)).m = 3 /\ Ymd(DayOf(hist[1].value)).d = 1
       ELSE FallsOn(people[1], DayOf(hist[1].value))

\* The date is a February 29 and the reference day is 2025-02-28: the call returns
\* the noon of 2025-03-01.
C21_Witness ==
  /\ Len(hist) >= 1
  /\ people[1].dateISO = << "2", "0", "0", "0", "-", "0", "2", "-", "2", "9" >>
  /\ clock = MakeDate(2025, 1, 28, 0, 0)
  /\ hist[1].value = MakeDate(2025, 2, 1, 12, 0)

\* The reference day comes before the recorded month and day in its year.
BeforeRecordedDay(p, day) ==
  \/ Ymd(day).m < p.m
  \/ Ymd(day).m = p.m /\ Ymd(day).d < p.d

\* The reference year minus the recorded year, minus one before the recorded month
\* and day, and zero where that is negative.
YearsCompleted(p, day) ==
  IF Ymd(day).y - p.y - (IF BeforeRecordedDay(p, day) THEN 1 ELSE 0) < 0 THEN 0
  ELSE Ymd(day).y - p.y - (IF BeforeRecordedDay(p, day) THEN 1 ELSE 0)

\* a <= b on JavaScript numbers: false when either is NaN.
NumLe(a, b) == a # NaN /\ b # NaN /\ a <= b

\* The age is the clamped number of completed years, and it does not decrease
\* when the reference date advances: not within the day and not to the next day,
\* hence to no later date.
AgeAsCounted ==
  /\ NumLe(0, hist[2].value)
  /\ hist[2].value = YearsCompleted(parseYmd(people[1].dateISO), DayOf(clock))
  /\ NumLe(hist[2].value, ageOn(people[1].dateISO, DayOf(clock) * TicksPerDay + TicksPerDay - 1))
  /\ NumLe(hist[2].value, ageOn(people[1].dateISO, clock + TicksPerDay))

\* C22: for every dateISO, ageOn is never negative, it is the reference year minus
\* the recorded year, minus one when the reference month and day precede the
\* recorded ones, clamped at zero, and ageOn(a) <= ageOn(b) for reference dates
\* a <= b.
C22_AgeClampedAndMonotone == Len(hist) = 2 => AgeAsCounted

\* The same for the dates whose year is a number, which is where ageOn keeps it.
AgeOfNumericYear ==
  (Len(hist) = 2 /\ parseYmd(people[1].dateISO).y # NaN) => AgeAsCounted

-----------------------------------------------------------------------------
(* The planner on people of whom one has a date that is not a calendar    *)
(* date.  parseCSV keeps any non-empty date text, so such a person can be *)
(* in the people the planner is given.                                    *)

\* The id of the person whose date is malformed.
MalformedId == << "m" >>

\* ps with the person p put in at position k.
InsertAt(ps, k, p) ==
  [j \in 1..(Len(ps) + 1) |-> IF j < k THEN ps[j] ELSE IF j = k THEN p ELSE ps[j - 1]]

\* A date without month and day, without day, with month 13, with month 0 and
\* with February 31, among up to two people with well-formed dates; now is
\* some weeks before the days the malformed dates are resolved to.
MalformedInit ==
  /\ Detached
  /\ clock \in { MakeDate(2024, 4, 20, 10, 0), MakeDate(2024, 11, 20, 10, 0),
                 MakeDate(2024, 1, 20, 10, 0) }
  /\ platform \in { "ios", "android" }
  /\ queue = << >>
  /\ \E others \in Arrangements({ Ann, Bob, Dan }, 2), k \in 1..3,
        iso \in { << "1", "9", "9", "0" >>,
                  << "1", "9", "9", "0", "-", "0", "6" >>,
                  << "1", "9", "9", "0", "-", "1", "3", "-", "0", "5" >>,
                  << "1", "9", "9", "0", "-", "0", "0", "-", "1", "0" >>,
                  << "1", "9", "9", "0", "-", "0", "2", "-", "3", "1" >> } :
       /\ k <= Len(others) + 1
       /\ people = InsertAt(others, k,
                            [ id |-> MalformedId, name |-> << "M", "a", "l" >>,
                              type |-> "birthday", dateISO |-> iso,
                              label |-> "undefined", sameDayReminder |-> "true" ])
  /\ settings \in { [DefaultSettings EXCEPT !.weeklySummaryEnabled = w] : w \in BOOLEAN }
  /\ effect = [sig |-> << >>, timer |-> 0]
  /\ hist = << >>

MalformedSpec == MalformedInit /\ [][PlanWeekly \/ PlanDaily]_vars

\* The people without the one whose date is malformed.
WellFormedPeople == SelectSeq(people, LAMBDA p : p.id # MalformedId)

\* C23: a person whose dateISO is malformed is selected by neither pass, and the
\* notifications are those the planner produces for the other people alone.
C23_MalformedIgnored ==
  Planned =>
    /\ \A n \in 1..Len(queue) : \A k \in 1..Len(queue[n].personIds) :
         queue[n].personIds[k] # MalformedId
    /\ queue = WeeklyPlan(settings, WellFormedPeople, platform, clock)
                 \o DailyPlan(settings, WellFormedPeople, platform, clock)

-----------------------------------------------------------------------------
(* Two runs of the planner side by side.  Two calls of                    *)
(* rescheduleAllNotifications made with the same settings and people have *)
(* both had their clearAllScheduled return at the same instant, so both   *)
(* start scheduleWeekly with the same now; from there each goes on as the *)
(* service answers it.                                                    *)

\* The instants the runs start at: a second before the end of May and of June 10,
\* and two seconds before the reminder time of Ann's day.  The debounce delay has
\* passed; both calls were made with the settings and people of the last render.
RunsInit ==
  /\ clock \in { MakeDate(2024, 5, 1, 0, 0) - 2, MakeDate(2024, 5, 11, 0, 0) - 2,
                 MakeDate(2024, 5, 15, 9, 0) - 4 }
  /\ platform \in { "ios", "android" }
  /\ perm = "granted"
  /\ queue = { }
  /\ people = << AnnStored, Bob >>
  /\ storage = [people |-> [present |-> TRUE, value |-> people],
                settings |-> [present |-> FALSE]]
  /\ settings \in { [DefaultSettings EXCEPT !.weeklySummaryWeekday = 6,
                                            !.weeklySummaryEnabled = w] : w \in BOOLEAN }
  /\ initFx = [pc |-> "done", wake |-> 0]
  /\ effect = [sig |-> buildNotificationSignature(settings, people), timer |-> 2]
  /\ timers = { }
  /\ hist = [ticks |-> DebounceTicks, changes |-> 0, failures |-> 0, committed |-> << >>,
             reenabled |-> FALSE]
  /\ recons =
       [ k \in 1..2 |->
           EnterWeekly(
             [ NewRecon([id |-> k, due |-> clock, settings |-> settings, people |-> people])
                 EXCEPT !.ok = "true", !.cancelCalls = 1, !.cancelReturned = TRUE,
                        !.channelCalls = IF platform = "android" THEN 2 ELSE 0 ],
             clock) ]

RunsSpec == RunsInit /\ [][Tick \/ NextTriggerReturn \/ ScheduleReturn]_vars

\* What run k has got queued, in the order of its submissions.
Submitted(k) ==
  { [type |-> e.type, trigger |-> e.trigger, personIds |-> e.personIds, n |-> e.n] :
      e \in { q \in queue : q.by = k } }

\* C24: two runs of the planner with identical settings, identical people and the
\* same now submit identical sequences of notifications.
C24_SameInputsSamePlan ==
  (recons[1].pc = "done" /\ recons[2].pc = "done") => Submitted(1) = Submitted(2)

\* The days the daily pass of run r examines from iteration r.i + 1 on when the
\* submission it is suspended at returns at the present clock reading are the
\* calendar days that follow the r.i-th day after the day of its now.
ExaminesConsecutiveDays(r) ==
  \A j \in (r.i + 1)..(horizonDays(platform) - 1) :
    DayOf(DailyDay(r.now, clock, j)) = DayOf(r.now) + j

\* C28: the days one daily pass examines are the horizonDays consecutive calendar
\* days from the day of the now read at the start of the pass, also when the
\* clock crosses midnight or a month boundary while the pass is suspended at a
\* submission.
C28_ConsecutiveDaysExamined ==
  \A k \in 1..Len(recons) :
    recons[k].pc \in { "d_next", "d_sched" } =>
      /\ DayOf(recons[k].cur.trigger) = DayOf(recons[k].now) + recons[k].i
      /\ recons[k].pc = "d_sched" => ExaminesConsecutiveDays(recons[k])

\* The same where the clock is still in the month of the pass's now.
SameMonthDaysExamined ==
  \A k \in 1..Len(recons) :
    (/\ recons[k].pc \in { "d_next", "d_sched" }
     /\ GetMonth(clock) = GetMonth(recons[k].now)) =>
      /\ DayOf(recons[k].cur.trigger) = DayOf(recons[k].now) + recons[k].i
      /\ recons[k].pc = "d_sched" => ExaminesConsecutiveDays(recons[k])


-----------------------------------------------------------------------------
(* The plan as a list                                                      *)

\* No two requests of the plan have the same channel and the same fire time.
Deduplicated ==
  \A i, j \in 1..Len(queue) :
    (i < j /\ queue[i].type = queue[j].type) => queue[i].trigger # queue[j].trigger

\* The fire times of the requests of one channel do not decrease.
OrderedWithinChannel ==
  \A i, j \in 1..Len(queue) :
    (i < j /\ queue[i].type = queue[j].type) => queue[i].trigger <= queue[j].trigger

\* C25: in the order in which the planner produces and submits them, the fire
\* times of the notifications of one run are non-decreasing across the whole
\* plan, weekly and daily entries together, and no two entries have the same
\* channel and the same fire time.
C25_TimeOrderedAndDeduplicated ==
  Planned =>
    /\ \A i, j \in 1..Len(queue) : i < j => queue[i].trigger <= queue[j].trigger
    /\ Deduplicated

\* What holds of the plan: each channel's entries are strictly time-ordered.
OrderedPerChannel == Planned => (Deduplicated /\ OrderedWithinChannel)


-----------------------------------------------------------------------------
(* The signature as the key of the plan                                    *)

\* The people with one person's sameDayReminder set to another value.
FlagVariants(ps) ==
  { [ps EXCEPT ![k].sameDayReminder = f] :
      k \in 1..Len(ps), f \in { "true", "false", "undefined" } }

\* The people with the part of one person's name before a '|' moved to the end of
\* the id: the people a CSV file with that id and name gives.
SeparatorVariants(ps) ==
  { [ps EXCEPT ![kj[1]] = [@ EXCEPT !.id = @ \o << "|" >> \o SubSeq(ps[kj[1]].name, 1, kj[2] - 1),
                                    !.name = SubSeq(@, kj[2] + 1, Len(@))]] :
      kj \in { x \in (1..Len(ps)) \X (1..3) :
                 x[2] <= Len(ps[x[1]].name) /\ ps[x[1]].name[x[2]] = "|" } }

\* What the planner submits for the people ps with the present settings and clock.
PlanOf(ps) ==
  WeeklyPlan(settings, ps, platform, clock) \o DailyPlan(settings, ps, platform, clock)

\* C26: two snapshots for which the planner produces different plans have
\* different signatures; among them a person's sameDayReminder unset against
\* false and ids or names that contain '|'.
C26_SignatureSeparatesPlans ==
  hist = << "buildNotificationSignature" >> =>
    \A qs \in FlagVariants(people) \cup SeparatorVariants(people) :
       PlanOf(qs) # PlanOf(people) => buildNotificationSignature(settings, qs) # effect.sig

\* The same for sameDayReminder set to true or false and no '|' moved.
SetFlagsSeparated ==
  hist = << "buildNotificationSignature" >> =>
    \A qs \in FlagVariants(people) :
       (/\ \A k \in 1..Len(qs) : qs[k].sameDayReminder # "undefined"
        /\ \A k \in 1..Len(people) : people[k].sameDayReminder # "undefined"
        /\ PlanOf(qs) # PlanOf(people))
         => buildNotificationSignature(settings, qs) # effect.sig


-----------------------------------------------------------------------------
(* Start-up                                                                *)

\* C27: when stored people exist, no reconciliation that has issued cancel-all
\* was started with the initial in-memory snapshot, empty people and default
\* settings, however long the start-up permission request and the loads take.
C27_NoCancelOnInitialSnapshot ==
  storage.people.present =>
    \A k \in 1..Len(recons) :
      recons[k].cancelCalls > 0 =>
        ~(recons[k].people = << >> /\ recons[k].settings = DefaultSettings)


-----------------------------------------------------------------------------
(* Changes the planner does not read: the list header's search, filter and *)
(* sort, the theme pills, and the label field of the edit form.            *)

\* The app has started and loaded its people and settings; the timer of the last
\* render is pending, for up to the debounce delay, or its call is over.
UiInit ==
  /\ clock = StartClock
  /\ platform \in { "ios", "android" }
  /\ perm = "granted"
  /\ queue = { OldEntry }
  /\ people = << AnnStored, Cat >>
  /\ settings = [DefaultSettings EXCEPT !.weeklySummaryWeekday = 6]
  /\ storage = [people |-> [present |-> TRUE, value |-> people],
                settings |-> [present |-> TRUE, value |-> [weeklySummaryWeekday |-> 6]]]
  /\ initFx = [pc |-> "done", wake |-> 0]
  /\ effect = [sig |-> buildNotificationSignature(settings, people), timer |-> 3]
  /\ timers \in { { } } \cup
       { { [id |-> 3, due |-> clock + d, settings |-> settings, people |-> people] } :
           d \in 1..DebounceTicks }
  /\ recons = << >>
  /\ hist = [ticks |-> 0, changes |-> 0, failures |-> 0, committed |-> << >>,
             reenabled |-> FALSE]

\* The search box, a filter pill, a sort pill or a theme pill is used.
setUiField ==
  /\ CanChange
  /\ \E patch \in { [search |-> "a"], [search |-> ""], [filterType |-> "birthday"],
                    [sortMode |-> "name"], [themeMode |-> "dark"], [themeMode |-> "light"] } :
       Render(Merge(settings, patch), people)
  /\ Changed
  /\ UNCHANGED << clock, platform, perm, queue, storage, initFx, recons >>

\* The edit form is saved after its label field was changed.
saveLabel ==
  /\ CanChange
  /\ \E k \in 1..Len(people), label \in { "friend", "" } :
       \E editingPerson \in { [people[k] EXCEPT !.label = label] } :
         Render(settings, [people EXCEPT ![IndexOfId(people, editingPerson.id)] = editingPerson])
  /\ Changed
  /\ UNCHANGED << clock, platform, perm, queue, storage, initFx, recons >>

UiSpec == UiInit /\ [][setUiField \/ saveLabel \/ Tick]_vars

\* The step changes settings or people, and nothing but search, filterType,
\* sortMode, themeMode or a person's label.
UiOnlyChange ==
  /\ settings' # settings \/ people' # people
  /\ \A f \in DOMAIN settings \ { "search", "filterType", "sortMode", "themeMode" } :
       settings'[f] = settings[f]
  /\ Len(people') = Len(people)
  /\ \A k \in 1..Len(people) : [people'[k] EXCEPT !.label = people[k].label] = people[k]

\* C29: a change of only search, filterType, sortMode, themeMode or a person's
\* label leaves the signature as it is, starts or restarts no debounce timer and
\* leaves the service's queue and any pending timer untouched.
C29_UiChangeLeavesPlanAlone ==
  [][UiOnlyChange =>
       /\ buildNotificationSignature(settings', people')
            = buildNotificationSignature(settings, people)
       /\ UNCHANGED << effect, timers, queue, recons >>]_vars

\* A search text was typed and Cat's label changed while the timer of the last
\* render was pending: it still is.
C29_Witness ==
  /\ settings.search = "a"
  /\ people[2].label = "friend"
  /\ hist.changes = 2
  /\ \E t \in timers : t.id = 3 /\ t.people[2].label = "undefined" /\ t.settings.search = ""


-----------------------------------------------------------------------------
(* A rejected cancel-all                                                   *)

\* The step is the return of a rejected cancelAllScheduledNotificationsAsync to
\* call k.
CancelRejected(k) ==
  /\ k <= Len(recons) /\ Len(recons') = Len(recons)
  /\ recons[k].pc = "cancel"
  /\ recons'[k].pc # "cancel"
  /\ hist'.failures = hist.failures + 1

\* Of the notifications one call has queued, every weekly summary was submitted
\* before every daily reminder.
WeeklyBeforeDaily ==
  \A e1, e2 \in queue :
    (e1.by = e2.by /\ e1.by > 0 /\ e1.type = "weekly-summary" /\ e2.type = "daily-reminder")
      => e1.n < e2.n

\* C30: a rejected cancel-all does not end the call of rescheduleAllNotifications:
\* the call goes on into scheduleWeekly and scheduleDaily, the queue is left as it
\* was, and every call submits all its weekly entries before its first daily one.
C30_CancelFailureSwallowed ==
  /\ [][\A k \in 1..MaxRecons :
          CancelRejected(k) =>
            /\ recons'[k].pc \in { "w_next", "d_next", "done" }
            /\ recons'[k].rejectedBy = "none"
            /\ queue' = queue]_vars
  /\ []WeeklyBeforeDaily

\* The notification of the earlier run is still queued, so the one cancel-all that
\* has returned was rejected; the call it belongs to has gone through both passes
\* and has a weekly and a daily notification queued.
C30_Witness ==
  /\ OldEntry \in queue
  /\ \E k \in 1..Len(recons) :
       /\ recons[k].pc = "done"
       /\ recons[k].cancelReturned
       /\ \E e1, e2 \in queue :
            /\ e1.by = k /\ e1.type = "weekly-summary"
            /\ e2.by = k /\ e2.type = "daily-reminder"

=============================================================================
